---- MODULE Spec2Model ----
(***************************************************************************)
(* Model of homebridge-soma-shades.                                        *)
(*                                                                         *)
(*   ShadesAccessory (src/src/platformAccessory.ts:41-275): the poll loop  *)
(*   and the host command handler setTargetPosition, which interleave at   *)
(*   every await / promise continuation of the single-threaded event loop. *)
(*   Each action below is one run-to-completion segment of that code: it   *)
(*   starts where a promise settles and ends at the next await.            *)
(*                                                                         *)
(*   Three specifications are defined over the same variables:             *)
(*     Spec            the accessory (poll loop + command handler); the    *)
(*                     session's operations appear by their outcome        *)
(*                     (resolved with a byte / rejected);                  *)
(*     SpecSession     the SOMADevice session (connect, discovery, cached  *)
(*                     characteristic handles, reads and writes) with two  *)
(*                     concurrent callers and the transport's events;      *)
(*     SpecDoneMoving  the pure function doneMoving on all inputs.         *)
(***************************************************************************)
EXTENDS Integers, Sequences, FiniteSets, TLC

(* ----------------------------- constants ------------------------------- *)

\* battery level below 10% is considered low battery
LOW_BATTERY_LEVEL == 10

\* the tolerance the poll loop passes to doneMoving
POLL_THRESHOLD == 2

(* ------------------------------- bounds -------------------------------- *)

\* number of setTargetPosition invocations issued by the host in one run
MaxCmds == 2

\* largest threshold tried for doneMoving in SpecDoneMoving
MaxThreshold == 3

\* number of connections the transport establishes in one run of SpecSession
MaxEpochs == 2

\* cap of the per-device count of hand-offs
MaxHandoffs == 2

(* --------------------------- input domains ----------------------------- *)

\* bytes the device reports for its motor state (current position, device
\* convention, 100 = closed): 30 is host 70, 58 is host 42, the upper edge
\* of the band around host target 40.
DevPositions == {30, 58}

\* what the device's target characteristic holds when the accessory is
\* constructed: 60 is host 40, 100 is closed.
DevTargets == {60, 100}

\* bytes the device reports for its battery level
BatteryLevels == {8, 10, 11}

\* values the host passes to setTargetPosition (host convention)
CmdValues == {40, 70}

Cmds == 1..MaxCmds

VARIABLES
    \* ShadesAccessory.shadesState
    positionState, currentPosition, targetPosition,
    \* ShadesAccessory.batteryState
    batteryLevel, low_battery,
    \* ShadesAccessory.lastMovementDone, .firstPoll
    lastMovementDone, firstPoll,
    \* values last pushed to the host with updateValue
    hostPositionState, hostCurrentPosition, hostTargetPosition,
    hostBatteryLevel, hostLowBattery,
    \* position of the constructor / poll loop
    pollPc,
    \* how the cycle's getCurrentPosition() settled, while the cycle is between
    \* that read and its end: "ok" | "err", and "none" outside
    currentRead,
    \* one record per setTargetPosition invocation:
    \*   pc  "idle" | "reading" | "writing" | "done"
    \*   v   the value passed by the host (0 while idle)
    \*   cb  what the callback was called with: "none" | "ok" | "err"
    \*   w   the byte of the pending somaDevice.setTargetPosition
    \*       (meaningful while pc = "writing", 0 otherwise)
    cmds,
    \* the device's target characteristic (device convention)
    devTarget,
    \* doneMoving under test: [c, t, k, called, r]
    dm,
    \* getInfomationCharacteristics(): its local deviceInfo, and the
    \* information characteristics its loop has still to read
    deviceInfo, unread,
    \* SOMADevice.connected, .initialized
    connected, initialized,
    \* SOMADevice.characteristics: per handle 0 for null, or the number of the
    \* connection (epoch) in which discovery returned it
    characteristics,
    \* peripheral.state: "disconnected" | "connecting" | "connected"
    peripheralState,
    \* whether a once('disconnect') listener is registered on the peripheral
    disconnectListener,
    \* number of connections the transport has established so far
    epoch,
    \* one record per concurrent caller of the session:
    \*   op   the public operation in progress, "none" when idle
    \*   pc   "idle" | "connect" | "services" | "battery" | "motor" | "io"
    \*        | "infoServices" | "infoChars" | "infoRead"
    \*   ep   the connection the pending transport request was issued on
    \*        (0: issued while the link was down)
    \*   h    the characteristic handle the pending read/write uses; at
    \*        "infoRead" the position of the information characteristic read
    \*   res  how the caller's last operation settled: "none" | "ok" | "err"
    callers

VARIABLES
    \* config.devices: the ids of the configured devices, in order
    devices,
    \* SOMAShadesPlatform.accessories: the device ids of the accessories the
    \* host restored from its cache (an accessory's UUID is generated from
    \* the id it was created with, so the id stands for the UUID)
    accessories,
    \* the device ids of the accessories the host holds registered
    hostAccessories,
    \* per configured id, how many ShadesAccessory/SOMADevice pairs
    \* addAccessory() has constructed
    made,
    \* noble.state
    nobleState,
    \* "launching" until discoverDevices() has run, then "returned"
    platformPc,
    \* whether the once('stateChange') / once('scanStop') listener is attached
    stateChangeListener, scanStopListener,
    \* number of 'discover' listeners attached
    discoverListeners,
    \* whether noble is scanning
    scanning,
    \* number of calls of noble.startScanningAsync() / noble.stopScanningAsync()
    scanRequests, stopRequests,
    \* SOMAShadesPlatform.discoveredAll and the closure's discoveredDevices
    discoveredAll, discoveredDevices,
    \* the way the last call of discoverPeripharels returned and the scan
    \* request in force at that time
    lastDiscover

accVars == <<positionState, currentPosition, targetPosition, batteryLevel,
             low_battery, lastMovementDone, firstPoll, hostPositionState,
             hostCurrentPosition, hostTargetPosition, hostBatteryLevel,
             hostLowBattery, pollPc, currentRead, cmds, devTarget>>

infoVars == <<deviceInfo, unread>>

sessVars == <<connected, initialized, characteristics, peripheralState,
              disconnectListener, epoch, callers>>

platVars == <<devices, accessories, hostAccessories, made, nobleState,
              platformPc, stateChangeListener, scanStopListener,
              discoverListeners, scanning, scanRequests, stopRequests,
              discoveredAll, discoveredDevices, lastDiscover>>

vars == <<accVars, dm, infoVars, sessVars, platVars>>

(* --------------------------- pure functions ---------------------------- *)

\* Buffer.from([position]): one unsigned byte
ByteOf(x) == x % 256

\* doneMoving with the upper bound excluded
doneMovingUpperStrict(c, t, threshold) ==
    LET lb == IF (t - threshold) >= 0 THEN (t - threshold) ELSE 0
        hb == IF (t + threshold) <= 100 THEN (t + threshold) ELSE 100
    IN  c >= lb /\ c < hb

\* doneMoving with the lower bound excluded
doneMovingLowerStrict(c, t, threshold) ==
    LET lb == IF (t - threshold) >= 0 THEN (t - threshold) ELSE 0
        hb == IF (t + threshold) <= 100 THEN (t + threshold) ELSE 100
    IN  c > lb /\ c <= hb

\* ShadesAccessory.doneMoving
doneMoving(c, t, threshold) ==
    LET lb == IF (t - threshold) >= 0 THEN (t - threshold) ELSE 0
        hb == IF (t + threshold) <= 100 THEN (t + threshold) ELSE 100
    IN  c >= lb /\ c <= hb

\* the low-battery flag with "below" taken strictly
LowBatteryOfStrict(level) ==
    IF level < LOW_BATTERY_LEVEL THEN "LOW" ELSE "NORMAL"

\* the low-battery flag derived in poll()
LowBatteryOf(level) ==
    IF level <= LOW_BATTERY_LEVEL THEN "LOW" ELSE "NORMAL"

\* the direction with the comparison turned round
DirectionOfSwapped(target, current) ==
    IF target < current THEN "INCREASING" ELSE "DECREASING"

\* moveUp ? INCREASING : DECREASING
DirectionOf(target, current) ==
    IF target > current THEN "INCREASING" ELSE "DECREASING"

(* ------------------------------- Init ---------------------------------- *)

InitAccessory ==
    /\ positionState = "STOPPED"
    /\ currentPosition = 0
    /\ targetPosition = 0
    /\ batteryLevel = 100
    /\ low_battery = "NORMAL"
    /\ lastMovementDone = TRUE
    /\ firstPoll = TRUE
    /\ hostPositionState = "STOPPED"
    /\ hostCurrentPosition = 0
    /\ hostTargetPosition = 0
    /\ hostBatteryLevel = 100
    /\ hostLowBattery = "NORMAL"
    /\ pollPc = "info"
    /\ currentRead = "none"
    /\ cmds = [k \in Cmds |-> [pc |-> "idle", v |-> 0, cb |-> "none", w |-> 0]]
    /\ devTarget \in DevTargets

InitDm ==
    dm = [c |-> 0, t |-> 0, k |-> 0, called |-> FALSE, r |-> FALSE]

\* the fields of SOMADeviceInformation
InfoFields == {"manufacturer", "serial", "hardwareRevision",
               "firmwareRevision", "softwareRevision"}

\* the placeholder each field of deviceInfo is created with
DefaultInfo ==
    [manufacturer |-> "Default Manufacturer",
     serial |-> "Default Serial",
     hardwareRevision |-> "Default Hardware Revision",
     firmwareRevision |-> "Default Firmware Revision",
     softwareRevision |-> "Default Software Revision"]

\* no getInfomationCharacteristics() is reading
InitInfo ==
    /\ deviceInfo = DefaultInfo
    /\ unread = {}

Callers == {"poll", "cmd"}

Ops == {"initialize", "getInfomationCharacteristics", "getBatteryLevel",
        "getCurrentPosition", "getTargetPosition", "setTargetPosition"}

\* the number of characteristics getInfomationCharacteristics() insists on
INFO_CHARACTERISTICS == 5

NoCharacteristics == [battery |-> 0, state |-> 0, target |-> 0, control |-> 0]

IdleCaller(res) == [op |-> "none", pc |-> "idle", ep |-> 0, h |-> 0, res |-> res]

InitSession ==
    /\ connected = FALSE
    /\ initialized = FALSE
    /\ characteristics = NoCharacteristics
    /\ peripheralState = "disconnected"
    /\ disconnectListener = FALSE
    /\ epoch = 0
    /\ callers = [c \in Callers |-> IdleCaller("none")]

\* device ids are strings: sequences of characters
ConfigIds == {<<"A", "1">>, <<"b", "2">>}

\* config.devices as the user may have written it
Configs == {<< >>, << <<"A", "1">> >>, << <<"A", "1">>, <<"b", "2">> >>}

\* the ids of the accessories the host may restore from its cache: none, the
\* first device under the id it is configured with or under its lower-case
\* spelling, a device that is never configured, or the second device
Caches == {{}, {<<"A", "1">>}, {<<"a", "1">>}, {<<"a", "2">>}, {<<"b", "2">>}}

\* the ids advertising peripherals report: the two configured devices and
\* one that is not configured
PeripheralIds == {<<"a", "1">>, <<"A", "1">>, <<"B", "2">>, <<"a", "2">>}

NobleStates == {"unknown", "poweredOff", "poweredOn"}

\* the platform after construction and configureAccessory() of each cached
\* accessory, before DID_FINISH_LAUNCHING's timer runs discoverDevices()
PlatformStart(cfg, cache) ==
    /\ devices = cfg
    /\ accessories = cache
    /\ hostAccessories = cache
    /\ made = [d \in ConfigIds |-> 0]
    /\ nobleState = "unknown"
    /\ platformPc = "launching"
    /\ stateChangeListener = FALSE
    /\ scanStopListener = FALSE
    /\ discoverListeners = 0
    /\ scanning = FALSE
    /\ scanRequests = 0
    /\ stopRequests = 0
    /\ discoveredAll = FALSE
    /\ discoveredDevices = << >>
    /\ lastDiscover = [r |-> "none", cycle |-> 0]

InitPlatform == \E cfg \in Configs, cache \in Caches : PlatformStart(cfg, cache)

\* one accessory and its session are followed with the platform at rest
Init ==
    /\ InitAccessory
    /\ InitDm
    /\ InitInfo
    /\ InitSession
    /\ PlatformStart(<< >>, {})

(* ----------------- ShadesAccessory.setTargetPosition ------------------- *)

\* the handler without its first guard (value === currentPosition)
SetTargetPositionNoEqualGuard(k, value) ==
    /\ cmds[k].pc = "idle"
    /\ k > 1 => cmds[k - 1].pc # "idle"
    /\ IF ~lastMovementDone
       THEN /\ cmds' = [cmds EXCEPT ![k] = [pc |-> "done", v |-> value, cb |-> "ok", w |-> 0]]
            /\ UNCHANGED <<targetPosition, positionState, hostPositionState>>
       ELSE /\ targetPosition' = value
            /\ positionState' = DirectionOf(value, currentPosition)
            /\ hostPositionState' = positionState'
            /\ cmds' = [cmds EXCEPT ![k] = [pc |-> "reading", v |-> value, cb |-> "none", w |-> 0]]
    /\ UNCHANGED <<currentPosition, batteryLevel, low_battery, lastMovementDone,
                   firstPoll, hostCurrentPosition, hostTargetPosition,
                   hostBatteryLevel, hostLowBattery, pollPc, devTarget, currentRead, dm, infoVars, sessVars,
                   platVars>>

\* the synchronous part of the handler, up to somaDevice.getTargetPosition()
SetTargetPosition(k, value) ==
    /\ cmds[k].pc = "idle"
    /\ k > 1 => cmds[k - 1].pc # "idle"
    /\ IF value = currentPosition \/ ~lastMovementDone
       THEN /\ cmds' = [cmds EXCEPT ![k] = [pc |-> "done", v |-> value, cb |-> "ok", w |-> 0]]
            /\ UNCHANGED <<targetPosition, positionState, hostPositionState>>
       ELSE /\ targetPosition' = value
            /\ positionState' = DirectionOf(value, currentPosition)
            /\ hostPositionState' = positionState'
            /\ cmds' = [cmds EXCEPT ![k] = [pc |-> "reading", v |-> value, cb |-> "none", w |-> 0]]
    /\ UNCHANGED <<currentPosition, batteryLevel, low_battery, lastMovementDone,
                   firstPoll, hostCurrentPosition, hostTargetPosition,
                   hostBatteryLevel, hostLowBattery, pollPc, devTarget, currentRead, dm, infoVars, sessVars,
                   platVars>>

\* .then((targetPosition) => ...) of somaDevice.getTargetPosition()
CmdReadOk(k) ==
    /\ cmds[k].pc = "reading"
    /\ IF devTarget # (100 - targetPosition)
       THEN cmds' = [cmds EXCEPT ![k].pc = "writing", ![k].w = ByteOf(100 - targetPosition)]
       ELSE cmds' = [cmds EXCEPT ![k].pc = "done", ![k].cb = "ok"]
    /\ UNCHANGED <<positionState, currentPosition, targetPosition, batteryLevel,
                   low_battery, lastMovementDone, firstPoll, hostPositionState,
                   hostCurrentPosition, hostTargetPosition, hostBatteryLevel,
                   hostLowBattery, pollPc, devTarget, currentRead, dm, infoVars, sessVars,
                   platVars>>

\* a rejected somaDevice.getTargetPosition() with no .catch(...) behind it
CmdReadErrSilent(k) ==
    /\ cmds[k].pc = "reading"
    /\ cmds' = [cmds EXCEPT ![k].pc = "done"]
    /\ UNCHANGED <<positionState, currentPosition, targetPosition, batteryLevel,
                   low_battery, lastMovementDone, firstPoll, hostPositionState,
                   hostCurrentPosition, hostTargetPosition, hostBatteryLevel,
                   hostLowBattery, pollPc, devTarget, currentRead, dm, infoVars, sessVars,
                   platVars>>

\* .catch(...) reached from a rejected somaDevice.getTargetPosition()
CmdReadErr(k) ==
    /\ cmds[k].pc = "reading"
    /\ cmds' = [cmds EXCEPT ![k].pc = "done", ![k].cb = "err"]
    /\ UNCHANGED <<positionState, currentPosition, targetPosition, batteryLevel,
                   low_battery, lastMovementDone, firstPoll, hostPositionState,
                   hostCurrentPosition, hostTargetPosition, hostBatteryLevel,
                   hostLowBattery, pollPc, devTarget, currentRead, dm, infoVars, sessVars,
                   platVars>>

\* second .then(...) after somaDevice.setTargetPosition() resolved
CmdWriteOk(k) ==
    /\ cmds[k].pc = "writing"
    /\ devTarget' = cmds[k].w
    /\ cmds' = [cmds EXCEPT ![k].pc = "done", ![k].cb = "ok", ![k].w = 0]
    /\ UNCHANGED <<positionState, currentPosition, targetPosition, batteryLevel,
                   low_battery, lastMovementDone, firstPoll, hostPositionState,
                   hostCurrentPosition, hostTargetPosition, hostBatteryLevel,
                   hostLowBattery, pollPc, currentRead, dm, infoVars, sessVars,
                   platVars>>

\* .catch(...) reached from a rejected somaDevice.setTargetPosition(); the
\* un-acknowledged write may or may not have reached the device
CmdWriteErr(k, applied) ==
    /\ cmds[k].pc = "writing"
    /\ devTarget' = IF applied THEN cmds[k].w ELSE devTarget
    /\ cmds' = [cmds EXCEPT ![k].pc = "done", ![k].cb = "err", ![k].w = 0]
    /\ UNCHANGED <<positionState, currentPosition, targetPosition, batteryLevel,
                   low_battery, lastMovementDone, firstPoll, hostPositionState,
                   hostCurrentPosition, hostTargetPosition, hostBatteryLevel,
                   hostLowBattery, pollPc, currentRead, dm, infoVars, sessVars,
                   platVars>>

(* ------------------ constructor and ShadesAccessory.poll --------------- *)

\* getInfomationCharacteristics() resolved: the constructor starts poll()
InfoOk ==
    /\ pollPc = "info"
    /\ pollPc' = "init"
    /\ UNCHANGED <<positionState, currentPosition, targetPosition, batteryLevel,
                   low_battery, lastMovementDone, firstPoll, hostPositionState,
                   hostCurrentPosition, hostTargetPosition, hostBatteryLevel,
                   hostLowBattery, cmds, devTarget, currentRead, dm, infoVars, sessVars,
                   platVars>>

\* getInfomationCharacteristics() rejected: only logged, poll() never runs
InfoErr ==
    /\ pollPc = "info"
    /\ pollPc' = "dead"
    /\ UNCHANGED <<positionState, currentPosition, targetPosition, batteryLevel,
                   low_battery, lastMovementDone, firstPoll, hostPositionState,
                   hostCurrentPosition, hostTargetPosition, hostBatteryLevel,
                   hostLowBattery, cmds, devTarget, currentRead, dm, infoVars, sessVars,
                   platVars>>

\* the initialize() step with its rejection escaping the loop
PollInitUncaught(ok) ==
    /\ pollPc = "init"
    /\ pollPc' = IF ok THEN "battery" ELSE "dead"
    /\ UNCHANGED <<positionState, currentPosition, targetPosition, batteryLevel,
                   low_battery, lastMovementDone, firstPoll, hostPositionState,
                   hostCurrentPosition, hostTargetPosition, hostBatteryLevel,
                   hostLowBattery, cmds, devTarget, currentRead, dm, infoVars, sessVars,
                   platVars>>

\* the initialize() step going on to the reads after a caught rejection
PollInitFallsThrough(ok) ==
    /\ pollPc = "init"
    /\ pollPc' = "battery"
    /\ UNCHANGED <<positionState, currentPosition, targetPosition, batteryLevel,
                   low_battery, lastMovementDone, firstPoll, hostPositionState,
                   hostCurrentPosition, hostTargetPosition, hostBatteryLevel,
                   hostLowBattery, cmds, devTarget, currentRead, dm, infoVars, sessVars,
                   platVars>>

\* somaDevice.initialize() settled; ok = FALSE stands for the caught rejection
PollInit(ok) ==
    /\ pollPc = "init"
    /\ pollPc' = IF ok THEN "battery" ELSE "sleep"
    /\ UNCHANGED <<positionState, currentPosition, targetPosition, batteryLevel,
                   low_battery, lastMovementDone, firstPoll, hostPositionState,
                   hostCurrentPosition, hostTargetPosition, hostBatteryLevel,
                   hostLowBattery, cmds, devTarget, currentRead, dm, infoVars, sessVars,
                   platVars>>

\* getBatteryLevel() settled with byte b, or rejected (ok = FALSE, caught: 0)
PollBattery(ok, b) ==
    /\ pollPc = "battery"
    /\ batteryLevel' = IF ok THEN b ELSE 0
    /\ hostBatteryLevel' = batteryLevel'
    /\ low_battery' = LowBatteryOf(batteryLevel')
    /\ hostLowBattery' = low_battery'
    /\ pollPc' = "current"
    /\ UNCHANGED <<positionState, currentPosition, targetPosition,
                   lastMovementDone, firstPoll, hostPositionState,
                   hostCurrentPosition, hostTargetPosition, cmds, devTarget, currentRead, dm, infoVars, sessVars,
                   platVars>>

\* the current-position step without the inversion to host convention
PollCurrentRaw(ok, d) ==
    /\ pollPc = "current"
    /\ currentPosition' = (IF ok THEN d ELSE 100)
    /\ hostCurrentPosition' = currentPosition'
    /\ pollPc' = "target"
    /\ currentRead' = (IF ok THEN "ok" ELSE "err")
    /\ UNCHANGED <<positionState, targetPosition, batteryLevel, low_battery,
                   lastMovementDone, firstPoll, hostPositionState,
                   hostTargetPosition, hostBatteryLevel, hostLowBattery,
                   cmds, devTarget, dm, infoVars, sessVars,
                   platVars>>

\* getCurrentPosition() settled with byte d, or rejected (caught: 100)
PollCurrent(ok, d) ==
    /\ pollPc = "current"
    /\ currentPosition' = 100 - (IF ok THEN d ELSE 100)
    /\ hostCurrentPosition' = currentPosition'
    /\ pollPc' = "target"
    /\ currentRead' = (IF ok THEN "ok" ELSE "err")
    /\ UNCHANGED <<positionState, targetPosition, batteryLevel, low_battery,
                   lastMovementDone, firstPoll, hostPositionState,
                   hostTargetPosition, hostBatteryLevel, hostLowBattery,
                   cmds, devTarget, dm, infoVars, sessVars,
                   platVars>>

\* getTargetPosition() settled with the device's target, or rejected
\* (caught: 100); then the rest of the cycle up to the sleep
PollTarget(ok) ==
    /\ pollPc = "target"
    /\ LET tp == 100 - (IF ok THEN devTarget ELSE 100)
           target1 == IF firstPoll THEN tp ELSE targetPosition
           done == /\ positionState # "STOPPED"
                   /\ doneMoving(currentPosition, target1, POLL_THRESHOLD)
       IN  /\ targetPosition' = target1
           /\ hostTargetPosition' = IF firstPoll THEN tp ELSE hostTargetPosition
           /\ firstPoll' = FALSE
           /\ lastMovementDone' = IF done THEN TRUE ELSE lastMovementDone
           /\ positionState' = IF done THEN "STOPPED" ELSE positionState
           /\ hostPositionState' = IF done THEN "STOPPED" ELSE hostPositionState
    /\ pollPc' = "sleep"
    /\ currentRead' = "none"
    /\ UNCHANGED <<currentPosition, batteryLevel, low_battery,
                   hostCurrentPosition, hostBatteryLevel, hostLowBattery,
                   cmds, devTarget, dm, infoVars, sessVars,
                   platVars>>

\* the sleep(REFRESH_RATE) timer fired: next cycle calls initialize()
PollWake ==
    /\ pollPc = "sleep"
    /\ pollPc' = "init"
    /\ UNCHANGED <<positionState, currentPosition, targetPosition, batteryLevel,
                   low_battery, lastMovementDone, firstPoll, hostPositionState,
                   hostCurrentPosition, hostTargetPosition, hostBatteryLevel,
                   hostLowBattery, cmds, devTarget, currentRead, dm, infoVars, sessVars,
                   platVars>>

Next ==
    \/ \E k \in Cmds, value \in CmdValues : SetTargetPosition(k, value)
    \/ \E k \in Cmds : CmdReadOk(k)
    \/ \E k \in Cmds : CmdReadErr(k)
    \/ \E k \in Cmds : CmdWriteOk(k)
    \/ \E k \in Cmds, applied \in BOOLEAN : CmdWriteErr(k, applied)
    \/ InfoOk
    \/ InfoErr
    \/ \E ok \in BOOLEAN : PollInit(ok)
    \/ \E ok \in BOOLEAN, b \in BatteryLevels : PollBattery(ok, b)
    \/ \E ok \in BOOLEAN, d \in DevPositions : PollCurrent(ok, d)
    \/ \E ok \in BOOLEAN : PollTarget(ok)
    \/ PollWake

Spec == Init /\ [][Next]_vars

\* a step of the poll loop: each awaited session operation settles (it is
\* raced against a timer) and the sleep timer fires
PollStep ==
    \/ \E ok \in BOOLEAN : PollInit(ok)
    \/ \E ok \in BOOLEAN, b \in BatteryLevels : PollBattery(ok, b)
    \/ \E ok \in BOOLEAN, d \in DevPositions : PollCurrent(ok, d)
    \/ \E ok \in BOOLEAN : PollTarget(ok)
    \/ PollWake

\* a step of command k: the awaited read or write settles
CmdStep(k) ==
    \/ CmdReadOk(k)
    \/ CmdReadErr(k)
    \/ CmdWriteOk(k)
    \/ \E applied \in BOOLEAN : CmdWriteErr(k, applied)

\* the accessory with its timers firing
SpecFair ==
    /\ Spec
    /\ WF_vars(PollStep)
    /\ \A k \in Cmds : WF_vars(CmdStep(k))

(* ------------------- doneMoving on all its inputs ---------------------- *)

InitDoneMoving ==
    /\ InitAccessory
    /\ dm \in [c : 0..100, t : 0..100, k : 0..MaxThreshold,
                called : {FALSE}, r : {FALSE}]
    /\ InitInfo
    /\ InitSession
    /\ PlatformStart(<< >>, {})

DoneMovingCall ==
    /\ ~dm.called
    /\ dm' = [dm EXCEPT !.called = TRUE, !.r = doneMoving(dm.c, dm.t, dm.k)]
    /\ UNCHANGED <<accVars, infoVars, sessVars, platVars>>

NextDoneMoving == DoneMovingCall

SpecDoneMoving == InitDoneMoving /\ [][NextDoneMoving]_vars

(* ------- getInfomationCharacteristics: the loop over the fields -------- *)

\* the bytes an information characteristic may hold: "S1" and "1"
Buffers == {<<83, 49>>, <<49>>}

\* Buffer.prototype.toString on these buffers
BufferToString(buffer) ==
    CASE buffer = <<83, 49>> -> "S1"
      [] buffer = <<49>> -> "1"

\* how a readAsync() settles: with a buffer, with something that is not a
\* Buffer, or rejected
ReadOutcomes == {"buffer", "nonBuffer", "error"}

\* the loop has the five characteristics before it and will read them in
\* whatever order discovery returned them
InitInfoRead ==
    /\ InitAccessory
    /\ InitDm
    /\ deviceInfo = DefaultInfo
    /\ unread = InfoFields
    /\ InitSession
    /\ PlatformStart(<< >>, {})

\* one pass of the loop: the readAsync() of the characteristic of field f
\* settled and the .then / .catch result is assigned to deviceInfo[f]
InfoRead(f, outcome, buffer) ==
    /\ f \in unread
    /\ deviceInfo' = [deviceInfo EXCEPT ![f] =
                        IF outcome = "buffer" THEN BufferToString(buffer)
                        ELSE deviceInfo.manufacturer]
    /\ unread' = unread \ {f}
    /\ UNCHANGED <<accVars, dm, sessVars, platVars>>

NextInfo ==
    \E f \in InfoFields, outcome \in ReadOutcomes, buffer \in Buffers :
        InfoRead(f, outcome, buffer)

SpecInfo == InitInfoRead /\ [][NextInfo]_vars

(* ----------------------------- SOMADevice ------------------------------ *)
(* The transport (noble) is the environment.  A request is answered with   *)
(* success only on the connection it was issued on and while that          *)
(* connection is up; it may always fail or stay unanswered until the       *)
(* DEFAULT_TIMEOUT timer of its Promise.race fires.  Both are the "failed" *)
(* outcome of a step below.  Promise continuations run as microtasks, so   *)
(* the code from one settled promise to the next pending request is one    *)
(* step.                                                                   *)

\* the connection a request issued now travels on
LinkTag(pstate, e) == IF pstate = "connected" THEN e ELSE 0

\* the cached handle a read/write operation uses
HandleOf(op, chars) ==
    CASE op = "getBatteryLevel" -> chars.battery
      [] op = "getCurrentPosition" -> chars.state
      [] OTHER -> chars.target

\* the body of a public operation once connected and initialized are both
\* true: initialize resolves, the others check their handle and issue the I/O
Perform(op, chars, tag) ==
    IF op = "initialize" THEN IdleCaller("ok")
    ELSE IF op = "getInfomationCharacteristics"
    THEN [op |-> op, pc |-> "infoServices", ep |-> tag, h |-> 0, res |-> "none"]
    ELSE IF HandleOf(op, chars) = 0 THEN IdleCaller("err")
    ELSE [op |-> op, pc |-> "io", ep |-> tag, h |-> HandleOf(op, chars), res |-> "none"]

\* a public operation entered (or re-entered after a recovery step) with
\* connected true: getCharacteristics() when not initialized, else its body
Enter(op, init, chars, tag) ==
    IF ~init
    THEN [op |-> op, pc |-> "services", ep |-> tag, h |-> 0, res |-> "none"]
    ELSE Perform(op, chars, tag)

\* a public operation entered or re-entered: connect() first when not
\* connected; connect() takes its early return when peripheral.state is
\* already 'connected', otherwise registers the disconnect listener and
\* calls connectAsync()
Dispatch(c, op) ==
    IF ~connected /\ peripheralState # "connected"
    THEN /\ callers' = [callers EXCEPT ![c] =
                [op |-> op, pc |-> "connect", ep |-> 0, h |-> 0, res |-> "none"]]
         /\ disconnectListener' = TRUE
         /\ peripheralState' = "connecting"
         /\ UNCHANGED connected
    ELSE /\ callers' = [callers EXCEPT ![c] =
                Enter(op, initialized', characteristics',
                      LinkTag(peripheralState, epoch))]
         /\ connected' = TRUE
         /\ UNCHANGED <<disconnectListener, peripheralState>>

\* a caller invokes a public operation of the session;
\* getInfomationCharacteristics() goes through initialize() only when
\* connected is false and otherwise starts its own discovery at once
Call(c, op) ==
    /\ callers[c].pc = "idle"
    /\ UNCHANGED <<initialized, characteristics, epoch>>
    /\ IF op = "getInfomationCharacteristics" /\ connected
       THEN /\ callers' = [callers EXCEPT ![c] =
                   Perform(op, characteristics, LinkTag(peripheralState, epoch))]
            /\ UNCHANGED <<connected, disconnectListener, peripheralState>>
       ELSE Dispatch(c, op)
    /\ UNCHANGED <<accVars, dm, infoVars, platVars>>

\* the link coming up with a 'connect' listener that sets connected whether
\* or not a caller still waits for the connect
ConnectResolvedSetsFlag ==
    /\ peripheralState = "connecting"
    /\ epoch < MaxEpochs
    /\ peripheralState' = "connected"
    /\ epoch' = epoch + 1
    /\ connected' = TRUE
    /\ callers' = [c \in Callers |->
                     IF callers[c].pc = "connect"
                     THEN Enter(callers[c].op, initialized, characteristics, epoch + 1)
                     ELSE callers[c]]
    /\ UNCHANGED <<initialized, characteristics, disconnectListener>>
    /\ UNCHANGED <<accVars, dm, infoVars, platVars>>

\* the transport establishes the link: every pending connectAsync() resolves
\* and each waiting caller continues with connected = true
ConnectResolved ==
    /\ peripheralState = "connecting"
    /\ epoch < MaxEpochs
    /\ peripheralState' = "connected"
    /\ epoch' = epoch + 1
    /\ connected' = (connected \/ \E c \in Callers : callers[c].pc = "connect")
    /\ callers' = [c \in Callers |->
                     IF callers[c].pc = "connect"
                     THEN Enter(callers[c].op, initialized, characteristics, epoch + 1)
                     ELSE callers[c]]
    /\ UNCHANGED <<initialized, characteristics, disconnectListener>>
    /\ UNCHANGED <<accVars, dm, infoVars, platVars>>

\* the transport reports that the connect attempt failed: every pending
\* connectAsync() rejects
ConnectRejected ==
    /\ peripheralState = "connecting"
    /\ peripheralState' = "disconnected"
    /\ callers' = [c \in Callers |->
                     IF callers[c].pc = "connect" THEN IdleCaller("err") ELSE callers[c]]
    /\ UNCHANGED <<connected, initialized, characteristics, disconnectListener, epoch>>
    /\ UNCHANGED <<accVars, dm, infoVars, platVars>>

\* the timer of connect()'s Promise.race fires first; the connect request
\* stays with the transport
ConnectTimeout(c) ==
    /\ callers[c].pc = "connect"
    /\ callers' = [callers EXCEPT ![c] = IdleCaller("err")]
    /\ UNCHANGED <<connected, initialized, characteristics, peripheralState,
                   disconnectListener, epoch>>
    /\ UNCHANGED <<accVars, dm, infoVars, platVars>>

\* whether the transport can answer c's pending request with success
Answerable(c) ==
    /\ peripheralState = "connected"
    /\ callers[c].ep = epoch

\* getCharacteristics(): discoverServicesAsync settled. ok: the battery and
\* the motor service, in that order; otherwise error, timeout or another shape
ServicesDiscovered(c, ok) ==
    /\ callers[c].pc = "services"
    /\ ok => Answerable(c)
    /\ callers' = [callers EXCEPT ![c] =
                     IF ok THEN [@ EXCEPT !.pc = "battery",
                                          !.ep = LinkTag(peripheralState, epoch)]
                     ELSE IdleCaller("err")]
    /\ UNCHANGED <<connected, initialized, characteristics, peripheralState,
                   disconnectListener, epoch>>
    /\ UNCHANGED <<accVars, dm, infoVars, platVars>>

\* getCharacteristics(): the battery service's discoverCharacteristicsAsync
\* settled. ok: exactly the battery-level characteristic
BatteryDiscovered(c, ok) ==
    /\ callers[c].pc = "battery"
    /\ ok => Answerable(c)
    /\ characteristics' = IF ok THEN [characteristics EXCEPT !.battery = epoch]
                          ELSE characteristics
    /\ callers' = [callers EXCEPT ![c] =
                     IF ok THEN [@ EXCEPT !.pc = "motor",
                                          !.ep = LinkTag(peripheralState, epoch)]
                     ELSE IdleCaller("err")]
    /\ UNCHANGED <<connected, initialized, peripheralState, disconnectListener, epoch>>
    /\ UNCHANGED <<accVars, dm, infoVars, platVars>>

\* what the motor service's discovery can return: "all" the three expected
\* characteristics; "noControl" three characteristics of which none has the
\* control UUID; "bad" error, timeout or a list whose length is not 3
MotorShapes == {"all", "noControl", "bad"}

\* getCharacteristics(): the motor service's discoverCharacteristicsAsync
\* settled; on a list of three, the handles are cached by UUID, initialized
\* becomes true and the caller's operation is entered again
MotorDiscovered(c, shape) ==
    /\ callers[c].pc = "motor"
    /\ shape # "bad" => Answerable(c)
    /\ IF shape = "bad"
       THEN /\ callers' = [callers EXCEPT ![c] = IdleCaller("err")]
            /\ UNCHANGED <<connected, initialized, characteristics,
                           peripheralState, disconnectListener>>
       ELSE /\ characteristics' =
                 [characteristics EXCEPT
                    !.state = epoch, !.target = epoch,
                    !.control = IF shape = "all" THEN epoch ELSE @]
            /\ initialized' = TRUE
            /\ Dispatch(c, callers[c].op)
    /\ UNCHANGED epoch
    /\ UNCHANGED <<accVars, dm, infoVars, platVars>>

\* a read/write whose failure makes the operation start over
IoSettledRetry(c, ok) ==
    /\ callers[c].pc = "io"
    /\ ok => Answerable(c)
    /\ UNCHANGED <<initialized, characteristics, epoch>>
    /\ IF ok
       THEN /\ callers' = [callers EXCEPT ![c] = IdleCaller("ok")]
            /\ UNCHANGED <<connected, peripheralState, disconnectListener>>
       ELSE Dispatch(c, callers[c].op)
    /\ UNCHANGED <<accVars, dm, infoVars, platVars>>

\* the readAsync / writeAsync of a public operation settled
IoSettled(c, ok) ==
    /\ callers[c].pc = "io"
    /\ ok => Answerable(c)
    /\ callers' = [callers EXCEPT ![c] = IdleCaller(IF ok THEN "ok" ELSE "err")]
    /\ UNCHANGED <<connected, initialized, characteristics, peripheralState,
                   disconnectListener, epoch>>
    /\ UNCHANGED <<accVars, dm, infoVars, platVars>>

\* getInfomationCharacteristics(): discoverServicesAsync([INFO_SERVICE_UUID])
\* settled. ok: exactly the information service; otherwise (error, timeout,
\* another shape) the operation resolves with the default strings
InfoServicesDiscovered(c, ok) ==
    /\ callers[c].pc = "infoServices"
    /\ ok => Answerable(c)
    /\ callers' = [callers EXCEPT ![c] =
                     IF ok THEN [@ EXCEPT !.pc = "infoChars",
                                          !.ep = LinkTag(peripheralState, epoch)]
                     ELSE IdleCaller("ok")]
    /\ UNCHANGED <<connected, initialized, characteristics, peripheralState,
                   disconnectListener, epoch>>
    /\ UNCHANGED <<accVars, dm, infoVars, platVars>>

\* getInfomationCharacteristics(): the information service's
\* discoverCharacteristicsAsync settled. ok: INFO_CHARACTERISTICS
\* characteristics, and the first of them is read; otherwise the defaults
InfoCharsDiscovered(c, ok) ==
    /\ callers[c].pc = "infoChars"
    /\ ok => Answerable(c)
    /\ callers' = [callers EXCEPT ![c] =
                     IF ok THEN [@ EXCEPT !.pc = "infoRead", !.h = 1,
                                          !.ep = LinkTag(peripheralState, epoch)]
                     ELSE IdleCaller("ok")]
    /\ UNCHANGED <<connected, initialized, characteristics, peripheralState,
                   disconnectListener, epoch>>
    /\ UNCHANGED <<accVars, dm, infoVars, platVars>>

\* getInfomationCharacteristics(): the transport settled the readAsync of the
\* h-th information characteristic, with a value or with an error (the field
\* then gets a fallback string); the next one is read, and after the last the
\* operation resolves.  These reads are awaited bare: no timer settles them.
InfoFieldRead(c, ok) ==
    /\ callers[c].pc = "infoRead"
    /\ ok => Answerable(c)
    /\ callers' = [callers EXCEPT ![c] =
                     IF callers[c].h < INFO_CHARACTERISTICS
                     THEN [@ EXCEPT !.h = @ + 1,
                                    !.ep = LinkTag(peripheralState, epoch)]
                     ELSE IdleCaller("ok")]
    /\ UNCHANGED <<connected, initialized, characteristics, peripheralState,
                   disconnectListener, epoch>>
    /\ UNCHANGED <<accVars, dm, infoVars, platVars>>

\* the disconnect listener that drops the handles but leaves initialized set
OnDisconnectKeepInitialized ==
    /\ connected' = FALSE
    /\ characteristics' = NoCharacteristics
    /\ UNCHANGED initialized

\* the disconnect listener without the reset of the discovery cache
OnDisconnectKeepCache ==
    /\ connected' = FALSE
    /\ UNCHANGED <<initialized, characteristics>>

\* the once('disconnect') listener registered by connect()
OnDisconnect ==
    /\ connected' = FALSE
    /\ initialized' = FALSE
    /\ characteristics' = NoCharacteristics

\* the transport signals that the link is lost
Disconnect ==
    /\ peripheralState = "connected"
    /\ peripheralState' = "disconnected"
    /\ IF disconnectListener
       THEN OnDisconnect
       ELSE UNCHANGED <<connected, initialized, characteristics>>
    /\ disconnectListener' = FALSE
    /\ UNCHANGED <<epoch, callers>>
    /\ UNCHANGED <<accVars, dm, infoVars, platVars>>

NextSession ==
    \/ \E c \in Callers, op \in Ops : Call(c, op)
    \/ ConnectResolved
    \/ ConnectRejected
    \/ \E c \in Callers : ConnectTimeout(c)
    \/ \E c \in Callers, ok \in BOOLEAN : ServicesDiscovered(c, ok)
    \/ \E c \in Callers, ok \in BOOLEAN : BatteryDiscovered(c, ok)
    \/ \E c \in Callers, shape \in MotorShapes : MotorDiscovered(c, shape)
    \/ \E c \in Callers, ok \in BOOLEAN : IoSettled(c, ok)
    \/ \E c \in Callers, ok \in BOOLEAN : InfoServicesDiscovered(c, ok)
    \/ \E c \in Callers, ok \in BOOLEAN : InfoCharsDiscovered(c, ok)
    \/ \E c \in Callers, ok \in BOOLEAN : InfoFieldRead(c, ok)
    \/ Disconnect

SpecSession == Init /\ [][NextSession]_vars

\* every request raced against a DEFAULT_TIMEOUT timer settles: by the
\* transport's answer or, at the latest, by the timer
TimedStep(c) ==
    \/ ConnectTimeout(c)
    \/ \E ok \in BOOLEAN : ServicesDiscovered(c, ok)
    \/ \E ok \in BOOLEAN : BatteryDiscovered(c, ok)
    \/ \E shape \in MotorShapes : MotorDiscovered(c, shape)
    \/ \E ok \in BOOLEAN : IoSettled(c, ok)
    \/ \E ok \in BOOLEAN : InfoServicesDiscovered(c, ok)
    \/ \E ok \in BOOLEAN : InfoCharsDiscovered(c, ok)

\* the session with its timers firing
SpecSessionFair ==
    SpecSession /\ \A c \in Callers : WF_vars(TimedStep(c))

(* -------------------------- SOMAShadesPlatform -------------------------- *)
(* noble is the environment: it reports the radio's state, delivers         *)
(* advertisements while a scan is on and the radio is powered, and may end  *)
(* a scan at any time with a 'scanStop' event.                              *)

\* String.prototype.toLowerCase on the characters device ids are made of
LowerChar(ch) ==
    CASE ch = "A" -> "a"
      [] ch = "B" -> "b"
      [] OTHER -> ch

toLowerCase(id) == [i \in DOMAIN id |-> LowerChar(id[i])]

\* a discovery callback that never finds an address in discoveredDevices
IncludesNever(list, x) == FALSE

\* Array.prototype.includes
Includes(list, x) == \E i \in 1..Len(list) : list[i] = x

\* devices.find() comparing only the first character of the ids
FindDeviceFirstChar(peripharelId) ==
    LET matching == {i \in 1..Len(devices) :
                        toLowerCase(devices[i])[1] = peripharelId[1]}
    IN  IF matching = {} THEN 0
        ELSE CHOOSE i \in matching : \A j \in matching : i <= j

\* devices.find((config) => config.id.toLowerCase() === peripharelId): the
\* position of the first such device, 0 when find() returns undefined
FindDevice(peripharelId) ==
    LET matching == {i \in 1..Len(devices) :
                        toLowerCase(devices[i]) = peripharelId}
    IN  IF matching = {} THEN 0
        ELSE CHOOSE i \in matching : \A j \in matching : i <= j

\* noble.startScanningAsync([], false): the scan starts, or the request is
\* rejected (only logged); noble rejects it unless the radio, whose state is
\* radio, is powered on
StartScanning(ok, radio) ==
    /\ scanRequests' = scanRequests + 1
    /\ scanning' = (ok /\ radio = "poweredOn")

\* startDiscovery()
StartDiscovery(ok, radio) ==
    /\ scanStopListener' = TRUE
    /\ discoverListeners' = discoverListeners + 1
    /\ StartScanning(ok, radio)

\* addAccessory(deviceConfig, peripheral): a ShadesAccessory with its
\* SOMADevice is constructed; the accessory is registered with the host
\* unless one with the same UUID was restored from the cache
AddAccessory(id) ==
    /\ made' = [made EXCEPT ![id] = IF @ < MaxHandoffs THEN @ + 1 ELSE @]
    /\ hostAccessories' = IF id \in accessories THEN hostAccessories
                          ELSE hostAccessories \cup {id}

\* a configuration check that lets every device list pass
NoDevicesNever == FALSE

\* !config || !config.devices || config.devices.length === 0
NoDevices == Len(devices) = 0

\* a removal loop that finds no cached accessory unconfigured
StaleAccessoriesNone == {}

\* the cached accessories the removal loop unregisters: those whose
\* lower-cased device id is the lower-cased id of no configured device
StaleAccessories ==
    {a \in accessories :
        \A i \in 1..Len(devices) : toLowerCase(devices[i]) # toLowerCase(a)}

\* discoverDevices(), run by the timer set on DID_FINISH_LAUNCHING
DiscoverDevices(ok) ==
    /\ platformPc = "launching"
    /\ platformPc' = "returned"
    /\ IF NoDevices
       THEN /\ hostAccessories' = hostAccessories \ accessories
            /\ UNCHANGED <<stateChangeListener, scanStopListener,
                           discoverListeners, scanning, scanRequests>>
       ELSE /\ hostAccessories' = hostAccessories \ StaleAccessories
            /\ IF nobleState # "poweredOn"
               THEN /\ stateChangeListener' = TRUE
                    /\ UNCHANGED <<scanStopListener, discoverListeners,
                                   scanning, scanRequests>>
               ELSE /\ StartDiscovery(ok, nobleState)
                    /\ UNCHANGED stateChangeListener
    /\ UNCHANGED <<devices, accessories, made, nobleState, discoveredAll,
                   discoveredDevices, lastDiscover, stopRequests>>
    /\ UNCHANGED <<accVars, dm, infoVars, sessVars>>

\* noble reports a new radio state; the once('stateChange') listener of
\* discoverDevices(), when attached, is consumed by it
StateChange(state, ok) ==
    /\ state # nobleState
    /\ nobleState' = state
    /\ IF stateChangeListener
       THEN /\ stateChangeListener' = FALSE
            /\ IF state = "poweredOn"
               THEN StartDiscovery(ok, state)
               ELSE UNCHANGED <<scanStopListener, discoverListeners,
                                scanning, scanRequests>>
       ELSE UNCHANGED <<stateChangeListener, scanStopListener,
                        discoverListeners, scanning, scanRequests>>
    /\ UNCHANGED <<devices, accessories, hostAccessories, made, platformPc,
                   discoveredAll, discoveredDevices, lastDiscover, stopRequests>>
    /\ UNCHANGED <<accVars, dm, infoVars, sessVars>>

\* scanStopped() emptying discoveredDevices when it restarts the scan
ScanStopResetsDiscovered(ok) ==
    /\ scanning
    /\ IF scanStopListener
       THEN /\ scanStopListener' = FALSE
            /\ IF ~discoveredAll
               THEN /\ discoverListeners' = 1
                    /\ discoveredDevices' = << >>
                    /\ StartScanning(ok, nobleState)
               ELSE /\ scanning' = FALSE
                    /\ UNCHANGED <<discoverListeners, scanRequests,
                                   discoveredDevices>>
       ELSE /\ scanning' = FALSE
            /\ UNCHANGED <<scanStopListener, discoverListeners, scanRequests,
                           discoveredDevices>>
    /\ UNCHANGED <<devices, accessories, hostAccessories, made, nobleState,
                   platformPc, stateChangeListener, discoveredAll,
                   lastDiscover, stopRequests>>
    /\ UNCHANGED <<accVars, dm, infoVars, sessVars>>

\* noble ends the scan and emits 'scanStop'; the once('scanStop') listener,
\* when attached, is consumed and runs scanStopped()
ScanStop(ok) ==
    /\ scanning
    /\ IF scanStopListener
       THEN /\ scanStopListener' = FALSE
            /\ IF ~discoveredAll
               THEN /\ discoverListeners' = 1
                    /\ StartScanning(ok, nobleState)
               ELSE /\ scanning' = FALSE
                    /\ UNCHANGED <<discoverListeners, scanRequests>>
       ELSE /\ scanning' = FALSE
            /\ UNCHANGED <<scanStopListener, discoverListeners, scanRequests>>
    /\ UNCHANGED <<devices, accessories, hostAccessories, made, nobleState,
                   platformPc, stateChangeListener, discoveredAll,
                   discoveredDevices, lastDiscover, stopRequests>>
    /\ UNCHANGED <<accVars, dm, infoVars, sessVars>>

\* the tear-down without removeListener('scanStop', scanStopped)
TearDownKeepScanStop(stopped) ==
    /\ discoverListeners' = 0
    /\ stopRequests' = stopRequests + 1
    /\ scanning' = ~stopped
    /\ UNCHANGED scanStopListener

\* removeAllListeners('discover'), removeListener('scanStop', scanStopped)
\* and stopScanningAsync(), whose rejection is only logged
TearDown(stopped) ==
    /\ discoverListeners' = 0
    /\ scanStopListener' = FALSE
    /\ stopRequests' = stopRequests + 1
    /\ scanning' = ~stopped

\* noble emits 'discover' for a peripheral: discoverPeripharels(peripharel)
Advertisement(peripharel, stopped) ==
    /\ scanning
    /\ nobleState = "poweredOn"
    /\ discoverListeners > 0
    /\ LET peripharelId == toLowerCase(peripharel)
           found == FindDevice(peripharelId)
       IN  IF discoveredAll
           THEN /\ TearDown(stopped)
                /\ lastDiscover' = [r |-> "late", cycle |-> scanRequests]
                /\ UNCHANGED <<hostAccessories, made, discoveredAll,
                               discoveredDevices>>
           ELSE IF Includes(discoveredDevices, peripharelId)
           THEN /\ lastDiscover' = [r |-> "duplicate", cycle |-> scanRequests]
                /\ UNCHANGED <<hostAccessories, made, discoveredAll,
                               discoveredDevices, discoverListeners,
                               scanStopListener, scanning, stopRequests>>
           ELSE IF found = 0
           THEN /\ lastDiscover' = [r |-> "unmatched", cycle |-> scanRequests]
                /\ UNCHANGED <<hostAccessories, made, discoveredAll,
                               discoveredDevices, discoverListeners,
                               scanStopListener, scanning, stopRequests>>
           ELSE /\ discoveredDevices' = Append(discoveredDevices, peripharelId)
                /\ AddAccessory(devices[found])
                /\ lastDiscover' = [r |-> "added", cycle |-> scanRequests]
                /\ IF Len(discoveredDevices') = Len(devices)
                   THEN /\ discoveredAll' = TRUE
                        /\ TearDown(stopped)
                   ELSE UNCHANGED <<discoveredAll, discoverListeners,
                                    scanStopListener, scanning, stopRequests>>
    /\ UNCHANGED <<devices, accessories, nobleState, platformPc,
                   stateChangeListener, scanRequests>>
    /\ UNCHANGED <<accVars, dm, infoVars, sessVars>>

NextPlatform ==
    \/ \E ok \in BOOLEAN : DiscoverDevices(ok)
    \/ \E state \in NobleStates, ok \in BOOLEAN : StateChange(state, ok)
    \/ \E ok \in BOOLEAN : ScanStop(ok)
    \/ \E peripharel \in PeripheralIds, stopped \in BOOLEAN :
            Advertisement(peripharel, stopped)

\* the platform before discovery, with any configuration and cache
InitDiscovery ==
    /\ InitAccessory
    /\ InitDm
    /\ InitInfo
    /\ InitSession
    /\ InitPlatform

SpecPlatform == InitDiscovery /\ [][NextPlatform]_vars

(* ------------------------------ claims --------------------------------- *)

Max(a, b) == IF a >= b THEN a ELSE b
Min(a, b) == IF a <= b THEN a ELSE b

\* command k is invoked in this step
Invoked(k) == cmds[k].pc = "idle" /\ cmds'[k].pc # "idle"

\* the poll cycle's last segment (target read settled, then the completion
\* test) is taken in this step
CycleEnds == pollPc = "target" /\ pollPc' = "sleep"

\* C1: a setTargetPosition invoked while an accepted move has not yet been
\* detected complete by a poll cycle (positionState is not STOPPED) reports
\* success, issues no device read or write, and leaves targetPosition and
\* positionState as they were.
C1_DebounceIsNoOp ==
    [][\A k \in Cmds :
        (Invoked(k) /\ positionState # "STOPPED")
            => /\ cmds'[k].pc = "done"
               /\ cmds'[k].cb = "ok"
               /\ targetPosition' = targetPosition
               /\ positionState' = positionState]_vars

\* C2: when a poll cycle has run to its end, positionState is STOPPED exactly
\* when lastMovementDone is true.
C2_StoppedIffMovementDone ==
    [][CycleEnds => ((positionState' = "STOPPED") <=> lastMovementDone')]_vars

\* C3: an accepted setTargetPosition(v) (v differs from currentPosition, no
\* movement in flight) sets targetPosition to v, sets positionState to
\* INCREASING when v > currentPosition and to DECREASING otherwise, and has
\* pushed that state to the host while the device read is still pending.
C3_AcceptSetsDirection ==
    [][\A k \in Cmds :
        (Invoked(k) /\ cmds'[k].v # currentPosition /\ lastMovementDone)
            => /\ targetPosition' = cmds'[k].v
               /\ positionState' = (IF cmds'[k].v > currentPosition
                                    THEN "INCREASING" ELSE "DECREASING")
               /\ hostPositionState' = positionState'
               /\ cmds'[k].pc = "reading"
               /\ cmds'[k].cb = "none"]_vars

\* C3 witness: at currentPosition 70 the command 40 has been accepted,
\* DECREASING is stored and pushed, and the device read is pending.
C3_Witness ==
    \E k \in Cmds :
        /\ cmds[k].pc = "reading"
        /\ cmds[k].v = 40
        /\ cmds[k].cb = "none"
        /\ currentPosition = 70
        /\ targetPosition = 40
        /\ positionState = "DECREASING"
        /\ hostPositionState = "DECREASING"

\* C4: when the device-target read of an accepted setTargetPosition(v)
\* succeeds, a write is issued if and only if the value read differs from
\* 100 - v; when it equals 100 - v the command reports success without a write.
C4_WriteIffDeviceTargetDiffers ==
    [][\A k \in Cmds :
        (cmds[k].pc = "reading" /\ cmds'[k].pc # "reading" /\ cmds'[k].cb # "err")
            => IF devTarget # 100 - cmds[k].v
               THEN cmds'[k].pc = "writing"
               ELSE cmds'[k].pc = "done" /\ cmds'[k].cb = "ok"]_vars

\* C5: in a poll cycle that finds positionState not STOPPED, if currentPosition
\* lies in [max(0, targetPosition-2), min(100, targetPosition+2)] the cycle ends
\* with positionState STOPPED, lastMovementDone true and STOPPED pushed to the
\* host; otherwise positionState and lastMovementDone are left as they were. No
\* other segment of the poll loop touches them.
C5_CompletionBand ==
    [][/\ (CycleEnds /\ positionState # "STOPPED")
            => IF /\ Max(0, targetPosition' - 2) <= currentPosition
                  /\ currentPosition <= Min(100, targetPosition' + 2)
               THEN /\ positionState' = "STOPPED"
                    /\ lastMovementDone'
                    /\ hostPositionState' = "STOPPED"
               ELSE /\ positionState' = positionState
                    /\ lastMovementDone' = lastMovementDone
       /\ (pollPc' # pollPc /\ ~CycleEnds)
            => /\ positionState' = positionState
               /\ lastMovementDone' = lastMovementDone]_vars

\* C5 witness: the command 40 was accepted, the next cycle read 42 (inside the
\* band around 40) and ended with STOPPED stored and pushed.
C5_Witness ==
    \E k \in Cmds :
        /\ cmds[k].pc \in {"reading", "writing"}
        /\ cmds[k].v = 40
        /\ targetPosition = 40
        /\ currentPosition = 42
        /\ pollPc = "sleep"
        /\ positionState = "STOPPED"
        /\ hostPositionState = "STOPPED"

\* C6: doneMoving(c, t, k) is true if and only if
\* max(0, t-k) <= c <= min(100, t+k), for c, t in 0..100 and k >= 0.
C6_DoneMovingBand ==
    dm.called =>
        (dm.r <=> (Max(0, dm.t - dm.k) <= dm.c /\ dm.c <= Min(100, dm.t + dm.k)))

\* C6 witness: doneMoving(98, 100, 2) was called and returned true (the band
\* at t = 100, k = 2 is [98, 100]).
C6_Witness ==
    dm.called /\ dm.c = 98 /\ dm.t = 100 /\ dm.k = 2 /\ dm.r

C8_CurrentPositionInverted ==
    [][\A d \in DevPositions :
        PollCurrent(TRUE, d)
            => /\ currentPosition' = 100 - d
               /\ hostCurrentPosition' = 100 - d
               /\ currentPosition' \in 0..100]_vars

\* C8 witness: the device reported 30 and the host-facing position is 70.
C8_Witness ==
    /\ pollPc = "target"
    /\ currentPosition = 70
    /\ hostCurrentPosition = 70

\* C9: a poll cycle assigns targetPosition only when it is the first one and
\* its target read succeeded (then to 100 - device target); a first cycle whose
\* target read fails adopts nothing and leaves the one-time adoption unused;
\* later cycles never assign targetPosition.
C9_AdoptOnlyOnFirstSuccessfulRead ==
    [][CycleEnds =>
        /\ ~firstPoll => targetPosition' = targetPosition
        /\ (firstPoll /\ PollTarget(FALSE) /\ ~PollTarget(TRUE))
              => (targetPosition' = targetPosition /\ firstPoll')
        /\ (firstPoll /\ PollTarget(TRUE))
              => (targetPosition' = 100 - devTarget /\ ~firstPoll')]_vars

\* C10: when the transport signals a disconnect, the session has at once
\* connected = false, initialized = false and all four cached handles empty;
\* and every characteristic read or write the session issues uses a handle
\* that discovery returned on the connection the request is issued on, so
\* after a disconnect no read or write is issued before a new connect and a
\* new discovery, and no handle from before the disconnect is used.
C10_DisconnectResetsSession ==
    [][/\ (peripheralState = "connected" /\ peripheralState' = "disconnected")
            => /\ ~connected'
               /\ ~initialized'
               /\ characteristics' = [battery |-> 0, state |-> 0,
                                      target |-> 0, control |-> 0]
       /\ \A c \in Callers :
            callers'[c].pc = "io"
                => /\ callers'[c].h # 0
                   /\ callers'[c].h = callers'[c].ep]_vars

\* C10 witness: the link was lost and established a second time, discovery
\* ran again, and a read or write is pending on a handle of the second
\* connection.
C10_Witness ==
    \E c \in Callers :
        /\ epoch = 2
        /\ peripheralState = "connected"
        /\ connected
        /\ initialized
        /\ callers[c].pc = "io"
        /\ callers[c].h = 2
        /\ callers[c].ep = 2

\* C11: in every reachable state of the session, initialized implies
\* connected, whatever the interleaving of connects, discovery steps,
\* disconnects and timeouts.
C11_InitializedImpliesConnected ==
    initialized => connected

\* C11 witness: a discovery run was cut by a disconnect between its steps (its
\* request of the first connection is still pending) and the session has
\* since been connected and initialized again on the second connection.
C11_Witness ==
    \E c \in Callers :
        /\ callers[c].pc \in {"battery", "motor"}
        /\ callers[c].ep = 1
        /\ epoch = 2
        /\ initialized
        /\ connected

\* C12: when the timer of a connect attempt fires first, the operation that
\* triggered it fails and connected is false; a connect request that completes
\* after every waiting caller has given up leaves connected false; and an
\* operation invoked while connected is false and the link is down starts
\* with the connect step.
C12_ConnectTimeout ==
    [][/\ \A c \in Callers :
            ConnectTimeout(c)
                => /\ callers'[c].pc = "idle"
                   /\ callers'[c].res = "err"
                   /\ ~connected'
       /\ (/\ peripheralState = "connecting"
           /\ peripheralState' = "connected"
           /\ \A c \in Callers : callers[c].pc # "connect")
            => ~connected'
       /\ \A c \in Callers :
            (/\ callers[c].pc = "idle"
             /\ callers'[c] # callers[c]
             /\ ~connected
             /\ peripheralState # "connected")
                => callers'[c].pc = "connect"]_vars

\* C12 witness: a connect attempt timed out, its operation failed, the
\* abandoned request then completed, and connected is still false.
C12_Witness ==
    \E c \in Callers :
        /\ callers[c].pc = "idle"
        /\ callers[c].res = "err"
        /\ peripheralState = "connected"
        /\ epoch = 1
        /\ ~connected
        /\ \A d \in Callers : callers[d].pc = "idle"

\* C13: every public operation of the session, once invoked, eventually
\* completes (resolves or rejects), the transport being free to leave any
\* request unanswered as long as the timers fire: no operation waits on a
\* transport request that no timer bounds.
C13_EveryOperationSettles ==
    \A c \in Callers : (callers[c].pc # "idle") ~> (callers[c].pc = "idle")

\* C14: once the poll loop has started, it begins a new cycle infinitely
\* often: a cycle that began reaches its sleep, whatever fails in it, and the
\* sleep is followed by the next cycle.
C14_PollLoopNeverStops ==
    /\ (pollPc = "init") ~> (pollPc = "sleep")
    /\ (pollPc = "sleep") ~> (pollPc = "init")

\* C14 witness: a new cycle begins after one in which the battery read had
\* failed.
C14_Witness ==
    /\ pollPc = "init"
    /\ ~firstPoll
    /\ batteryLevel = 0

\* C15: the poll loop is eventually started, also when the device-information
\* fetch made at construction fails.
C15_PollLoopEventuallyStarted ==
    <>(pollPc = "init")

\* C16: every command that reached the device path eventually reports, the
\* report is never changed or repeated, a finished handler has reported, and
\* the report is a failure exactly when the device read or write failed.
C16_ReportsExactlyOnce ==
    /\ \A k \in Cmds : (cmds[k].pc \in {"reading", "writing"}) ~> (cmds[k].cb # "none")
    /\ [][\A k \in Cmds :
            /\ cmds[k].cb # "none" => cmds'[k].cb = cmds[k].cb
            /\ cmds'[k].pc = "done" <=> cmds'[k].cb # "none"
            /\ (cmds[k].cb = "none" /\ cmds'[k].cb # "none")
                 => (cmds'[k].cb = "err"
                       <=> (CmdReadErr(k) \/ \E applied \in BOOLEAN : CmdWriteErr(k, applied)))]_vars

\* C16 witness: one command has reported a failure and another a success
\* after a write.
C16_Witness ==
    /\ cmds[1].cb = "err"
    /\ cmds[2].cb = "ok"
    /\ devTarget = 100 - cmds[2].v

\* C17: a setTargetPosition whose value equals currentPosition reports
\* success, issues no device read or write, and leaves targetPosition,
\* positionState and lastMovementDone as they were.
C17_EqualValueIsNoOp ==
    [][\A k \in Cmds :
        (Invoked(k) /\ cmds'[k].v = currentPosition)
            => /\ cmds'[k].pc = "done"
               /\ cmds'[k].cb = "ok"
               /\ targetPosition' = targetPosition
               /\ positionState' = positionState
               /\ hostPositionState' = hostPositionState
               /\ lastMovementDone' = lastMovementDone
               /\ devTarget' = devTarget]_vars

\* C17 witness: the only command invoked so far asked for 70 while
\* currentPosition was 70 and has reported success; the device's target has
\* not been written.
C17_Witness ==
    /\ cmds[1] = [pc |-> "done", v |-> 70, cb |-> "ok", w |-> 0]
    /\ cmds[2].pc = "idle"
    /\ currentPosition = 70
    /\ devTarget \in DevTargets

\* C18: during a discovery run, the platform constructs at most one
\* accessory with its session for each configured device, however many
\* advertisements of its address arrive, be it in the same scan cycle or
\* after a scan restart, and the discovered set holds no address twice.
C18_HandedOffAtMostOnce ==
    /\ \A d \in ConfigIds : made[d] <= 1
    /\ \A i, j \in 1..Len(discoveredDevices) :
          discoveredDevices[i] = discoveredDevices[j] => i = j

\* C18 witness: after a scan restart, an advertisement of an address that
\* was matched before was dropped as a duplicate.
C18_Witness ==
    /\ lastDiscover = [r |-> "duplicate", cycle |-> 2]
    /\ \E d \in ConfigIds : made[d] = 1
    /\ ~discoveredAll

\* C19: an advertisement leads to a hand-off only for a configured device
\* whose lower-cased id equals the peripheral's lower-cased address; an
\* advertisement whose address matches no configured device constructs and
\* registers nothing and leaves the discovered set alone.
C19_HandOffOnlyOnMatch ==
    [][\A p \in PeripheralIds :
        (\E stopped \in BOOLEAN : Advertisement(p, stopped))
            => /\ \A d \in ConfigIds :
                    made'[d] # made[d]
                      => /\ toLowerCase(d) = toLowerCase(p)
                         /\ \E i \in 1..Len(devices) : devices[i] = d
               /\ (\A i \in 1..Len(devices) :
                        toLowerCase(devices[i]) # toLowerCase(p))
                    => /\ made' = made
                       /\ hostAccessories' = hostAccessories
                       /\ discoveredDevices' = discoveredDevices
                       /\ discoveredAll' = discoveredAll]_vars

\* C19 witness: the device configured as "A1" has been handed off and the
\* last advertisement, from the unconfigured address "a2", matched nothing.
C19_Witness ==
    /\ lastDiscover.r = "unmatched"
    /\ made[<<"A", "1">>] = 1
    /\ discoveredDevices = << <<"a", "1">> >>

\* C20: whenever noble ends the scan while not all configured devices have
\* been matched, the advertisement listener is attached again and a new scan
\* is requested, at the first such stop and at every later one.
C20_EveryEarlyStopRestarts ==
    [][((\E ok \in BOOLEAN : ScanStop(ok)) /\ ~discoveredAll)
         => /\ discoverListeners' = 1
            /\ scanRequests' = scanRequests + 1]_vars

\* C21: in the step in which the number of matched devices reaches the
\* number of configured devices, discoveredAll is set, both listeners are
\* removed and the scan is asked to stop (and is off unless noble rejects the
\* request); from then on no step hands a device off, registers an accessory,
\* attaches a listener, or requests or starts a scan.
C21_AllMatchedEndsDiscovery ==
    [][/\ (Len(devices) > 0 /\ Len(discoveredDevices') = Len(devices))
            => discoveredAll'
       /\ (~discoveredAll /\ discoveredAll')
            => /\ discoverListeners' = 0
               /\ ~scanStopListener'
               /\ stopRequests' = stopRequests + 1
               /\ (\E p \in PeripheralIds : Advertisement(p, TRUE)) => ~scanning'
       /\ discoveredAll
            => /\ discoveredAll'
               /\ made' = made
               /\ hostAccessories' = hostAccessories
               /\ discoverListeners' = 0
               /\ ~scanStopListener'
               /\ scanRequests' = scanRequests
               /\ scanning' => scanning]_vars

\* C21 witness: both configured devices have been handed off, the listeners
\* are gone and the scan is off after the one stop request.
C21_Witness ==
    /\ discoveredAll
    /\ Len(devices) = 2
    /\ \A d \in ConfigIds : made[d] = 1
    /\ discoverListeners = 0
    /\ ~scanStopListener
    /\ stopRequests = 1
    /\ ~scanning

\* C22: when discovery began with the radio not powered on and no scan has
\* been requested yet, the radio's report of poweredOn makes the platform
\* request a scan, whatever states the radio reported before.
C22_PowerOnStartsScan ==
    [][((\E ok \in BOOLEAN : StateChange("poweredOn", ok))
          /\ platformPc = "returned"
          /\ Len(devices) > 0
          /\ scanRequests = 0)
         => /\ scanRequests' = 1
            /\ discoverListeners' = 1]_vars

\* C23: after discoverDevices() has run with an empty device list, no cached
\* accessory is registered with the host any more, no listener is attached,
\* no scan is requested or on, and no accessory has been constructed or
\* registered, whatever the radio reports afterwards.
C23_EmptyConfigNoDiscovery ==
    (Len(devices) = 0 /\ platformPc = "returned")
        => /\ hostAccessories = {}
           /\ ~stateChangeListener
           /\ ~scanStopListener
           /\ discoverListeners = 0
           /\ ~scanning
           /\ scanRequests = 0
           /\ \A d \in ConfigIds : made[d] = 0

\* C23 witness: discoverDevices() has run with an empty device list and a
\* cached accessory, and the radio has since powered on.
C23_Witness ==
    /\ Len(devices) = 0
    /\ platformPc = "returned"
    /\ accessories # {}
    /\ nobleState = "poweredOn"

\* C24: the platform's accessory list never changes, and once
\* discoverDevices() has run, a cached accessory whose lower-cased device id
\* is that of no configured device is not registered with the host and has
\* not been given a ShadesAccessory with its session.
C24_StaleAccessoryRemoved ==
    [][/\ accessories' = accessories
       /\ platformPc' = "returned"
            => \A a \in accessories' :
                  (\A i \in 1..Len(devices') :
                        toLowerCase(devices'[i]) # toLowerCase(a))
                    => /\ a \notin hostAccessories'
                       /\ a \in ConfigIds => made'[a] = 0]_vars

\* C24 witness: the cached accessory of the second device, which is not
\* configured, is unregistered and still listed while the configured device
\* has been handed off.
C24_Witness ==
    /\ devices = << <<"A", "1">> >>
    /\ accessories = {<<"b", "2">>}
    /\ hostAccessories = {<<"A", "1">>}
    /\ made[<<"A", "1">>] = 1
    /\ made[<<"b", "2">>] = 0

\* C25: while a setTargetPosition(v) that was accepted is on its device path,
\* no step of the poll loop changes targetPosition, the first cycle's
\* target-adoption step included.
C25_PollKeepsAcceptedTarget ==
    [][(PollStep /\ \E k \in Cmds : cmds[k].pc \in {"reading", "writing"})
         => targetPosition' = targetPosition]_vars

\* C26: the value a setTargetPosition(v) call writes to the device's target
\* characteristic is the byte 100 - v of that call's own v, whatever was
\* accepted or polled while its device-target read was pending.
C26_WriteCarriesOwnValue ==
    \A k \in Cmds : cmds[k].pc = "writing" => cmds[k].w = ByteOf(100 - cmds[k].v)

\* C27: when a discovery run of a session that is not initialized fails at
\* its service, battery or motor step, the session is afterwards not
\* initialized and holds no cached handle.
C27_FailedDiscoveryKeepsNothing ==
    [][\A c \in Callers :
        (/\ ~initialized
         /\ \/ ServicesDiscovered(c, FALSE)
            \/ BatteryDiscovered(c, FALSE)
            \/ MotorDiscovered(c, "bad"))
            => /\ ~initialized'
               /\ characteristics' = NoCharacteristics]_vars

\* C28: in every reachable state, initialized implies that the battery, the
\* motor-state, the motor-target and the motor-control handle are all cached.
C28_InitializedHasAllHandles ==
    initialized
        => /\ characteristics.battery # 0
           /\ characteristics.state # 0
           /\ characteristics.target # 0
           /\ characteristics.control # 0

\* the place of a step in the course of one public operation
Stage(pc) ==
    CASE pc = "idle" -> 0
      [] pc = "connect" -> 1
      [] pc = "services" -> 2
      [] pc = "battery" -> 3
      [] pc = "motor" -> 4
      [] pc \in {"io", "infoServices"} -> 5
      [] pc = "infoChars" -> 6
      [] pc = "infoRead" -> 7

\* C29: within one invocation of a public operation the steps only move
\* forward (connect, then discovery, then the operation's own requests) until
\* the operation completes or fails: no connect attempt or discovery run is
\* made a second time.
C29_NoRetryLoop ==
    [][\A c \in Callers :
        (callers[c].pc # "idle" /\ callers'[c] # callers[c])
            => \/ callers'[c].pc = "idle"
               \/ Stage(callers'[c].pc) > Stage(callers[c].pc)
               \/ (/\ callers[c].pc = "infoRead"
                   /\ callers'[c].pc = "infoRead"
                   /\ callers'[c].h > callers[c].h)]_vars

\* C29 witness: an operation connected, discovered and issued its read or
\* write, and the link has dropped while that request is pending.
C29_Witness ==
    \E c \in Callers :
        /\ callers[c].pc = "io"
        /\ callers[c].ep = 1
        /\ epoch = 1
        /\ peripheralState = "disconnected"
        /\ ~connected
        /\ \A d \in Callers \ {c} : callers[d] = IdleCaller("none")

\* C30: at no time do two callers have a transport request of the same
\* session outstanding.
C30_OneRequestAtATime ==
    Cardinality({c \in Callers : callers[c].pc # "idle"}) <= 1

\* the steps of getCharacteristics(): a discovery request is pending
DiscoveryStages == {"services", "battery", "motor"}

\* C31: on one connection at most one caller is carrying out the discovery of
\* the services and characteristics, and none is once the session is
\* initialized.
C31_DiscoveryOncePerConnection ==
    LET discovering == {c \in Callers :
                           /\ callers[c].pc \in DiscoveryStages
                           /\ callers[c].ep = epoch
                           /\ peripheralState = "connected"}
    IN  /\ Cardinality(discovering) <= 1
        /\ initialized => discovering = {}

\* C32: the step of a poll cycle in which initialize() has failed issues no
\* read, changes and pushes no host-facing value, leaves the first-poll
\* adoption unused and goes to the sleep, which only its timer ends.
C32_FailedInitOnlySleeps ==
    [][/\ PollInit(FALSE)
          => /\ pollPc' = "sleep"
             /\ UNCHANGED <<batteryLevel, low_battery, currentPosition,
                            targetPosition, positionState, firstPoll,
                            hostBatteryLevel, hostLowBattery,
                            hostCurrentPosition, hostTargetPosition,
                            hostPositionState>>
       /\ pollPc = "sleep" => pollPc' \in {"sleep", "init"}]_vars

\* C32 witness: the first cycle's initialize() has failed and the loop sleeps
\* with the first-poll adoption still to come.
C32_Witness ==
    /\ pollPc = "sleep"
    /\ firstPoll
    /\ hostTargetPosition = 0
    /\ \E k \in Cmds : cmds[k].pc = "reading"

\* C33: every call of startScanningAsync(), the first one and the one of the
\* restart after a scan stop, is made while noble.state is poweredOn.
C33_ScanOnlyWhenPoweredOn ==
    [][scanRequests' # scanRequests => nobleState' = "poweredOn"]_vars

\* the scan is restarted in this step: 'scanStop' reaches scanStopped() with
\* devices still to be found
Restarted ==
    /\ scanStopListener
    /\ ~discoveredAll
    /\ \E ok \in BOOLEAN : ScanStop(ok)

\* C34 as stated: the restart after an early scan stop empties
\* discoveredDevices.
C34_RestartResetsDiscovered ==
    [][Restarted => discoveredDevices' = << >>]_vars

\* C34 amended: the restart after an early scan stop leaves discoveredDevices
\* as it is, so the addresses matched in earlier scan cycles stay recorded.
C34_RestartKeepsDiscovered ==
    [][Restarted => discoveredDevices' = discoveredDevices]_vars

\* C34 witness: the scan has been restarted with one of two configured
\* devices already matched, and that address is still recorded.
C34_Witness ==
    /\ scanRequests = 2
    /\ ~scanStopListener
    /\ ~discoveredAll
    /\ Len(devices) = 2
    /\ Len(discoveredDevices) = 1

\* the position last reported by the device lies within the completion band
\* around v
ReportedInBand(v) == doneMoving(currentPosition, v, POLL_THRESHOLD)

\* C35: when setTargetPosition(v) is accepted and reports success, no further
\* command comes, poll cycles keep completing and the reported position from
\* some time on stays within the band around v, then positionState
\* eventually becomes STOPPED.
C35_AcceptedMovementCompletes ==
    \A v \in CmdValues :
        (/\ [](\A k \in Cmds \ {1} : cmds[k].pc = "idle")
         /\ [](cmds[1].cb # "err")
         /\ []<>(pollPc = "target")
         /\ <>[]ReportedInBand(v))
            => ((cmds[1].pc = "reading" /\ cmds[1].v = v)
                    ~> positionState = "STOPPED")

\* C36: when the first setTargetPosition call, made before the first poll
\* cycle has ended and with no other call after it, reports failure to the
\* host, targetPosition and positionState hold again the values they had
\* before the call: those the accessory was constructed with.
C36_FailureRestoresState ==
    [][(/\ firstPoll
        /\ \A k \in Cmds \ {1} : cmds[k].pc = "idle"
        /\ \/ CmdReadErr(1)
           \/ \E applied \in BOOLEAN : CmdWriteErr(1, applied))
          => /\ targetPosition' = 0
             /\ positionState' = "STOPPED"
             /\ hostPositionState' = "STOPPED"]_vars

\* C37: positionState becomes STOPPED only at the end of a poll cycle whose
\* current-position read succeeded, with the position it returned within the
\* band around targetPosition.
C37_CompleteOnlyAfterGoodRead ==
    [][(positionState # "STOPPED" /\ positionState' = "STOPPED")
          => /\ CycleEnds
             /\ currentRead = "ok"
             /\ doneMoving(currentPosition, targetPosition', POLL_THRESHOLD)]_vars

\* C38: a poll cycle whose battery read fails while the flag is NORMAL (so
\* the last level read from the device, if any, was above LOW_BATTERY_LEVEL)
\* leaves the low-battery flag and the value pushed to the host NORMAL.
C38_FailedBatteryReadKeepsFlag ==
    [][(/\ low_battery = "NORMAL"
        /\ \E b \in BatteryLevels : PollBattery(FALSE, b))
          => /\ low_battery' = "NORMAL"
             /\ hostLowBattery' = "NORMAL"]_vars

\* C39: the host holds at most one accessory for each configured device, ids
\* compared without regard to letter case (the way the configuration is
\* matched against the cache and against the peripherals).
C39_OneAccessoryPerDevice ==
    \A i \in 1..Len(devices) :
        Cardinality({a \in hostAccessories :
                        toLowerCase(a) = toLowerCase(devices[i])}) <= 1

\* the text fields other than the manufacturer
TextFields == InfoFields \ {"manufacturer"}

\* C40: when the read of the serial, hardware, firmware or software field
\* fails or returns something that is not a buffer, that field holds its own
\* placeholder afterwards.
C40_FailedFieldKeepsOwnDefault ==
    [][\A f \in TextFields, outcome \in {"nonBuffer", "error"},
          buffer \in Buffers :
            InfoRead(f, outcome, buffer) => deviceInfo'[f] = DefaultInfo[f]]_vars

====
